---- MODULE Spec2Model ----
(***************************************************************************)
(* Item-listing service of python/main.py: the SQLite tables categories    *)
(* and items, the image directory, the per-request connection generator    *)
(* get_db, and the handlers add_item, get_items, get_item, get_image and   *)
(* search_items.                                                           *)
(*                                                                         *)
(* A read request (one SQL statement) is one step.  add_item is a sequence *)
(* of steps, one per database statement, so that requests served by        *)
(* different worker processes interleave between statements; the add_item  *)
(* requests in flight occupy slots 1..NumReq.  last is the request that    *)
(* the latest step answered, IdleReq when that step answered none.         *)
(***************************************************************************)
EXTENDS Integers, Sequences, FiniteSets, TLC

VARIABLES
    dbExists,    \* db.exists(): the database file is present
    categories,  \* rows of table categories: [id, name]
    catSeq,      \* AUTOINCREMENT counter of categories
    items,       \* rows of table items: [id, name, category_id, image_name]
    itemSeq,     \* AUTOINCREMENT counter of items
    files,       \* the image directory: file name -> content
    req,         \* add_item requests in flight: arguments, position, locals
    last         \* the request the latest step answered, with its response

vars == <<dbExists, categories, catSeq, items, itemSeq, files, req, last>>

----------------------------------------------------------------------------
\* Bounds of the model.

NumReq == 2     \* add_item requests in flight at once
MaxItems == 2   \* add_item requests admitted over a run

Slots == 1..NumReq

\* Inputs the requests are drawn from.
Names == {"", "pen"}
CategoryNames == {"", "game", "toy"}
Images == {<<>>, <<1, 2>>}
ItemIds == 1..MaxItems
Keywords == {"", "pe"}

----------------------------------------------------------------------------
\* hashlib.sha256(image_data).hexdigest(), tabulated on Images.
Sha256Hex(b) ==
    CASE b = <<>> ->
           "e3b0c44298fc1c149afbf4c8996fb92427ae41e4649b934ca495991b7852b855"
      [] b = <<1, 2>> ->
           "a12871fee210fb8619291eaea194581cbd2531e4b23759d225f6806923f63222"

\* image_name = f"{image_hash}.jpg"
ImageNameOf(b) == Sha256Hex(b) \o ".jpg"

\* str.endswith
EndsWith(s, suf) ==
    /\ Len(s) >= Len(suf)
    /\ SubSeq(s, Len(s) - Len(suf) + 1, Len(s)) = suf

\* The reserved fallback asset and its content.
DefaultImage == "default.jpg"
DefaultBytes == <<9>>

\* Names asked of GET /image/{image_name}.
ImagePaths == {"foo.png", ".", "x.jpg", DefaultImage, ImageNameOf(<<1, 2>>)}

\* pathlib: (images / image_name).exists().  images / "." is the image
\* directory itself, which images.mkdir created.
PathExists(fs, p) == p \in DOMAIN fs \/ p = "."

\* Variant: the file opened in append mode.
WriteFileAppend(fs, p, data) ==
    [q \in (DOMAIN fs) \cup {p} |->
        IF q # p THEN fs[q]
        ELSE IF p \in DOMAIN fs THEN fs[p] \o data ELSE data]

\* open(image_path, "wb"); f.write(image_data): create or overwrite.
WriteFile(fs, p, data) ==
    [q \in (DOMAIN fs) \cup {p} |-> IF q = p THEN data ELSE fs[q]]

----------------------------------------------------------------------------
\* The schema created by setup_database.
CategoryColumns == {"id", "name"}
ItemColumns == {"id", "name", "category_id", "image_name"}

\* PRAGMA foreign_keys is a per-connection setting; setup_database turns it
\* on for its own connection only.  A connection made by get_db never runs
\* the pragma and keeps SQLite's default, off.
RequestConnForeignKeys == FALSE

\* Rows in rowid order, as a cursor returns them.
RECURSIVE SortById(_)
SortById(S) ==
    IF S = {} THEN <<>>
    ELSE LET m == CHOOSE x \in S : \A y \in S : x.id <= y.id
         IN  <<m>> \o SortById(S \ {m})

Project(row, cols) == [c \in cols |-> row[c]]

\* SELECT cols FROM <table with columns tableCols> over the rows that pass
\* the WHERE clause.  A column the table does not have fails the statement
\* (sqlite3.OperationalError: no such column) whatever the rows are.
Select(cols, tableCols, rows) ==
    IF cols \subseteq tableCols
    THEN [ok |-> TRUE,
          rows |-> [i \in 1..Cardinality(rows) |-> Project(SortById(rows)[i], cols)]]
    ELSE [ok |-> FALSE, rows |-> <<>>]

\* name LIKE '%keyword%': keyword occurs in name.  (LIKE folds ASCII case;
\* Names and Keywords are lower case, where that is plain containment.)
Like(name, keyword) ==
    \E i \in 1..(Len(name) + 1) :
        /\ i + Len(keyword) - 1 <= Len(name)
        /\ SubSeq(name, i, i + Len(keyword) - 1) = keyword

\* items JOIN categories ON items.category_id = categories.id, with the
\* columns get_items selects.
JoinRows(its, cats) ==
    {[id |-> it.id, name |-> it.name, category |-> c.name,
      image_name |-> it.image_name] :
        <<it, c>> \in {p \in its \X cats : p[1].category_id = p[2].id}}

\* Variant: categories.name without its UNIQUE constraint.
CategoriesInsertNoUnique(cats, seq, name) ==
    [ok |-> TRUE,
     cats |-> cats \cup {[id |-> seq + 1, name |-> name]},
     seq |-> seq + 1,
     lastrowid |-> seq + 1]

\* INSERT INTO categories (name) VALUES (?) and commit: name is UNIQUE, a
\* second row of a name fails with IntegrityError.
CategoriesInsert(cats, seq, name) ==
    IF \E c \in cats : c.name = name
    THEN [ok |-> FALSE, cats |-> cats, seq |-> seq, lastrowid |-> 0]
    ELSE [ok |-> TRUE,
          cats |-> cats \cup {[id |-> seq + 1, name |-> name]},
          seq |-> seq + 1,
          lastrowid |-> seq + 1]

\* INSERT INTO items (...) VALUES (...) and commit on a connection whose
\* foreign_keys setting is fk.
ItemsInsert(its, seq, cats, name, category_id, image_name, fk) ==
    IF fk /\ ~(\E c \in cats : c.id = category_id)
    THEN [ok |-> FALSE, items |-> its, seq |-> seq]
    ELSE [ok |-> TRUE,
          items |-> its \cup {[id |-> seq + 1, name |-> name,
                               category_id |-> category_id,
                               image_name |-> image_name]},
          seq |-> seq + 1]

----------------------------------------------------------------------------
\* get_db up to its first yield: the value injected into the handler.
GetDbEnter(exists) ==
    IF ~exists
    THEN [gen |-> "yield23", db |-> "None", conn |-> "unset"]
    ELSE [gen |-> "yield28", db |-> "conn", conn |-> "open"]

\* Variant: conn.close() after the yield instead of in a finally clause.
GetDbExitNoFinally(q, exc) ==
    IF q.gen = "yield28"
    THEN {[gen |-> "returned",
           conn |-> IF exc = "none" THEN "closed" ELSE "open",
           exc |-> exc]}
    ELSE {[gen |-> "returned", conn |-> q.conn, exc |-> exc]}

\* get_db resumed when the handler is over: by next() after a normal return
\* (exc = "none"), by throw(exc) otherwise.  The set of possible outcomes.
\* Resumed by next() at line 23 the generator runs on, connects and yields a
\* second time; the context manager raises RuntimeError and, depending on
\* the Python version, closes the generator (running finally) or leaves it
\* suspended with the connection open.
GetDbExit(q, exc) ==
    IF q.gen = "yield28"
    THEN {[gen |-> "returned", conn |-> "closed", exc |-> exc]}
    ELSE IF exc # "none"
    THEN {[gen |-> "returned", conn |-> q.conn, exc |-> exc]}
    ELSE {[gen |-> "yield28", conn |-> "open", exc |-> "RuntimeError"],
          [gen |-> "returned", conn |-> "closed", exc |-> "RuntimeError"]}

\* The status the framework answers with.
StatusOf(exc) ==
    CASE exc = "none" -> 200
      [] exc = "HTTP400" -> 400
      [] exc = "HTTP404" -> 404
      [] OTHER -> 500

----------------------------------------------------------------------------
IdleReq ==
    [kind |-> "none", pc |-> "idle",
     name |-> "", category |-> "", image |-> <<>>,
     item_id |-> 0, path |-> "", keyword |-> "",
     gen |-> "unstarted", db |-> "unset", conn |-> "unset",
     image_name |-> "", category_id |-> 0,
     exc |-> "none", status |-> 0, body |-> <<>>]

\* The image directory of a fresh deployment: the reserved default image.
InitFiles == (DefaultImage :> DefaultBytes)

\* After lifespan ran setup_database: the database file with empty tables.
Init ==
    /\ dbExists = TRUE
    /\ categories = {}
    /\ catSeq = 0
    /\ items = {}
    /\ itemSeq = 0
    /\ files = InitFiles
    /\ req = [r \in Slots |-> IdleReq]
    /\ last = IdleReq

Free(r) == req[r].pc = "idle"
InFlight(r) == ~Free(r)

\* Slots are interchangeable: a request takes the lowest slot that is free.
Available(r) == Free(r) /\ \A q \in Slots : q < r => InFlight(q)

\* A request with its dependency entered.
Started(kind, exists) ==
    LET g == GetDbEnter(exists)
    IN  [IdleReq EXCEPT !.kind = kind, !.gen = g.gen, !.db = g.db,
                        !.conn = g.conn]

\* The step answers no request.
NoAnswer == last' = IdleReq

\* Request q ends: the handler returned body or raised exc, the dependency
\* is torn down, the response is produced.
Finish(q, exc, body) ==
    \E out \in (IF q.gen = "unstarted"
                THEN {[gen |-> q.gen, conn |-> q.conn, exc |-> exc]}
                ELSE GetDbExit(q, exc)) :
        last' = [q EXCEPT !.pc = "done", !.gen = out.gen,
                          !.conn = out.conn, !.exc = out.exc,
                          !.status = StatusOf(out.exc),
                          !.body = IF out.exc = "none" THEN body ELSE <<>>]

\* The add_item request in slot r ends.
FinishSlot(r, exc, body) ==
    /\ Finish(req[r], exc, body)
    /\ req' = [req EXCEPT ![r] = IdleReq]

----------------------------------------------------------------------------
\* Variant: the category check left out.
ValidateNameOnly(name, category) ==
    IF name = "" THEN "HTTP400" ELSE "none"

\* add_item, lines 116-119: what the two checks raise.
Validate(name, category) ==
    IF name = "" THEN "HTTP400"
    ELSE IF category = "" THEN "HTTP400"
    ELSE "none"

AddsInFlight == Cardinality({q \in Slots : InFlight(q)})

\* POST /items arrives and add_item runs up to its first database statement
\* (lines 110-128): the get_db dependency is entered, the fields are
\* checked, the bytes are read, the asset name is derived and the bytes are
\* written under it.  A request that goes on occupies a slot.
AddItem(name, category, image) ==
    /\ LET q == [Started("add_item", dbExists) EXCEPT
                    !.name = name, !.category = category, !.image = image]
           exc == Validate(name, category)
       IN  IF exc # "none"
           THEN /\ Finish(q, exc, <<>>)
                /\ UNCHANGED <<files, req>>
           ELSE /\ itemSeq + AddsInFlight < MaxItems
                /\ files' = WriteFile(files, ImageNameOf(image), image)
                /\ \E r \in Slots :
                       /\ Available(r)
                       /\ req' = [req EXCEPT ![r] =
                                     [q EXCEPT !.pc = "select",
                                               !.image_name = ImageNameOf(image)]]
                /\ NoAnswer
    /\ UNCHANGED <<dbExists, categories, catSeq, items, itemSeq>>

\* Variant: the lookup without its WHERE clause.
GetCategoryIdSelectAnyRow(r) ==
    /\ req[r].pc = "select"
    /\ IF req[r].db = "None"
       THEN FinishSlot(r, "AttributeError", <<>>)
       ELSE IF categories # {}
       THEN /\ req' = [req EXCEPT
                         ![r].pc = "insert_item",
                         ![r].category_id =
                             (CHOOSE c \in categories :
                                  \A d \in categories : c.id <= d.id).id]
            /\ NoAnswer
       ELSE /\ req' = [req EXCEPT ![r].pc = "insert_cat"]
            /\ NoAnswer
    /\ UNCHANGED <<dbExists, categories, catSeq, items, itemSeq, files>>

\* get_category_id, lines 57-64: look the name up.  db is None when the
\* database file was missing: db_conn.cursor() raises AttributeError.
GetCategoryIdSelect(r) ==
    /\ req[r].pc = "select"
    /\ IF req[r].db = "None"
       THEN FinishSlot(r, "AttributeError", <<>>)
       ELSE IF \E c \in categories : c.name = req[r].category
       THEN /\ req' = [req EXCEPT
                         ![r].pc = "insert_item",
                         ![r].category_id =
                             (CHOOSE c \in categories :
                                  c.name = req[r].category).id]
            /\ NoAnswer
       ELSE /\ req' = [req EXCEPT ![r].pc = "insert_cat"]
            /\ NoAnswer
    /\ UNCHANGED <<dbExists, categories, catSeq, items, itemSeq, files>>

\* get_category_id, lines 67-70: insert the name, commit, return lastrowid.
GetCategoryIdInsert(r) ==
    /\ req[r].pc = "insert_cat"
    /\ LET res == CategoriesInsert(categories, catSeq, req[r].category)
       IN  IF res.ok
           THEN /\ categories' = res.cats
                /\ catSeq' = res.seq
                /\ req' = [req EXCEPT ![r].pc = "insert_item",
                                      ![r].category_id = res.lastrowid]
                /\ NoAnswer
           ELSE /\ FinishSlot(r, "IntegrityError", <<>>)
                /\ UNCHANGED <<categories, catSeq>>
    /\ UNCHANGED <<dbExists, items, itemSeq, files>>

\* insert_item, lines 188-193, and the return of add_item, line 134.
InsertItem(r) ==
    /\ req[r].pc = "insert_item"
    /\ LET res == ItemsInsert(items, itemSeq, categories, req[r].name,
                              req[r].category_id, req[r].image_name,
                              RequestConnForeignKeys)
       IN  IF res.ok
           THEN /\ items' = res.items
                /\ itemSeq' = res.seq
                /\ FinishSlot(r, "none",
                              <<"item received: " \o req[r].name>>)
           ELSE /\ FinishSlot(r, "IntegrityError", <<>>)
                /\ UNCHANGED <<items, itemSeq>>
    /\ UNCHANGED <<dbExists, categories, catSeq, files>>

\* GET /items: the joined listing.
GetItems ==
    /\ LET q == Started("get_items", dbExists)
       IN  IF q.db = "None"
           THEN Finish(q, "AttributeError", <<>>)
           ELSE Finish(q, "none", SortById(JoinRows(items, categories)))
    /\ UNCHANGED <<dbExists, categories, catSeq, items, itemSeq, files, req>>

\* GET /items/{item_id}:
\*   SELECT name, category, image_name FROM items WHERE id = ?
GetItem(item_id) ==
    /\ LET q == [Started("get_item", dbExists) EXCEPT !.item_id = item_id]
           res == Select({"name", "category", "image_name"}, ItemColumns,
                         {it \in items : it.id = item_id})
       IN  IF q.db = "None"
           THEN Finish(q, "AttributeError", <<>>)
           ELSE IF ~res.ok
           THEN Finish(q, "OperationalError", <<>>)
           ELSE IF res.rows = <<>>
           THEN Finish(q, "HTTP404", <<>>)
           ELSE Finish(q, "none", <<res.rows[1]>>)
    /\ UNCHANGED <<dbExists, categories, catSeq, items, itemSeq, files, req>>

\* GET /search?keyword=:
\*   SELECT name, category, image_name FROM items WHERE name LIKE ?
SearchItems(keyword) ==
    /\ LET q == [Started("search", dbExists) EXCEPT !.keyword = keyword]
           res == Select({"name", "category", "image_name"}, ItemColumns,
                         {it \in items : Like(it.name, keyword)})
       IN  IF q.db = "None"
           THEN Finish(q, "AttributeError", <<>>)
           ELSE IF ~res.ok
           THEN Finish(q, "OperationalError", <<>>)
           ELSE Finish(q, "none", res.rows)
    /\ UNCHANGED <<dbExists, categories, catSeq, items, itemSeq, files, req>>

\* Variant: the existence check and fallback ahead of the suffix check.
GetImageResultExistsFirst(fs, image_name) ==
    IF ~PathExists(fs, image_name)
    THEN [exc |-> "none", body |-> <<fs[DefaultImage]>>]
    ELSE IF ~EndsWith(image_name, ".jpg")
    THEN [exc |-> "HTTP400", body |-> <<>>]
    ELSE [exc |-> "none", body |-> <<fs[image_name]>>]

\* Variant: no fallback to the default image.
GetImageResultNoFallback(fs, image_name) ==
    IF ~EndsWith(image_name, ".jpg")
    THEN [exc |-> "HTTP400", body |-> <<>>]
    ELSE IF image_name \in DOMAIN fs
    THEN [exc |-> "none", body |-> <<fs[image_name]>>]
    ELSE [exc |-> "RuntimeError", body |-> <<>>]

\* get_image, lines 160-171: what the handler raises or which file it
\* answers with.  FileResponse of a path that names no file fails when the
\* response is sent.
GetImageResult(fs, image_name) ==
    IF ~EndsWith(image_name, ".jpg")
    THEN [exc |-> "HTTP400", body |-> <<>>]
    ELSE LET image == IF ~PathExists(fs, image_name)
                      THEN DefaultImage ELSE image_name
         IN  IF image \in DOMAIN fs
             THEN [exc |-> "none", body |-> <<fs[image]>>]
             ELSE [exc |-> "RuntimeError", body |-> <<>>]

\* GET /image/{image_name}: no database dependency.
GetImage(image_name) ==
    /\ LET q == [IdleReq EXCEPT !.kind = "get_image", !.path = image_name]
           res == GetImageResult(files, image_name)
       IN  Finish(q, res.exc, res.body)
    /\ UNCHANGED <<dbExists, categories, catSeq, items, itemSeq, files, req>>

----------------------------------------------------------------------------
\* The environment.  The database file is deleted while no connection is
\* open on it; the data goes with it.
DbFileRemoved ==
    /\ dbExists
    /\ \A r \in Slots : ~(InFlight(r) /\ req[r].conn = "open")
    /\ dbExists' = FALSE
    /\ categories' = {}
    /\ catSeq' = 0
    /\ items' = {}
    /\ itemSeq' = 0
    /\ NoAnswer
    /\ UNCHANGED <<files, req>>

\* lifespan: the service is started again and setup_database creates the
\* file and, where they do not exist, the tables.
SetupDatabase ==
    /\ \A r \in Slots : Free(r)
    /\ dbExists' = TRUE
    /\ NoAnswer
    /\ UNCHANGED <<categories, catSeq, items, itemSeq, files, req>>

\* insert_item called on its own with any Item, on a connection made the way
\* get_db makes it.
CategoryIds == 1..MaxItems

InsertItemCall(name, category_id, image) ==
    /\ dbExists
    /\ itemSeq + AddsInFlight < MaxItems
    /\ LET res == ItemsInsert(items, itemSeq, categories, name, category_id,
                              ImageNameOf(image), RequestConnForeignKeys)
       IN  /\ items' = res.items
           /\ itemSeq' = res.seq
    /\ NoAnswer
    /\ UNCHANGED <<dbExists, categories, catSeq, files, req>>

----------------------------------------------------------------------------
\* A request arrives; a read request is answered in the same step.
Requests ==
    \/ \E n \in Names, c \in CategoryNames, b \in Images : AddItem(n, c, b)
    \/ GetItems
    \/ \E id \in ItemIds : GetItem(id)
    \/ \E kw \in Keywords : SearchItems(kw)
    \/ \E p \in ImagePaths : GetImage(p)

\* An add_item request in flight takes its next step.
Steps ==
    \E r \in Slots :
        \/ GetCategoryIdSelect(r)
        \/ GetCategoryIdInsert(r)
        \/ InsertItem(r)

\* Requests served concurrently (several worker processes on one database).
Next == Requests \/ Steps

Spec == Init /\ [][Next]_vars

\* Requests served one at a time: none arrives while another is in flight.
Quiescent == \A r \in Slots : Free(r)

NextSeq == (Quiescent /\ Requests) \/ Steps

SpecSeq == Init /\ [][NextSeq]_vars

\* Concurrent requests while the database file may disappear and the service
\* be started again.
NextEnv == Next \/ DbFileRemoved \/ SetupDatabase

SpecEnv == Init /\ [][NextEnv]_vars

\* Concurrent requests together with direct calls of insert_item.
NextStore ==
    \/ Next
    \/ \E n \in Names \ {""}, c \in CategoryIds, b \in Images :
           InsertItemCall(n, c, b)

SpecStore == Init /\ [][NextStore]_vars

----------------------------------------------------------------------------
\* The read shape of an item row: its category resolved to the name.
ItemView(it) ==
    [name |-> it.name,
     category |-> (CHOOSE c \in categories : c.id = it.category_id).name,
     image_name |-> it.image_name]

\* A request of the given kind has just been answered.
Answered(kind) == last' # last /\ last'.kind = kind

\* C1: round trip.  An add_item that succeeds with non-empty name and
\* category inserts a row holding the submitted name, the id of the category
\* of the submitted name and '<sha256 of the bytes>.jpg'; and GET /items/{id}
\* on the id of a stored row answers 200 with exactly {name, category name,
\* image_name} of that row.
C1_RoundTrip ==
    [][/\ \A r \in Slots :
            (req[r].pc = "insert_item" /\ req'[r].pc = "idle"
                 /\ last'.status = 200)
            => \E it \in items' \ items :
                   /\ it.name = req[r].name
                   /\ it.image_name = Sha256Hex(req[r].image) \o ".jpg"
                   /\ \E c \in categories :
                          c.id = it.category_id /\ c.name = req[r].category
       /\ (Answered("get_item") /\ last'.db = "conn"
               /\ \E it \in items : it.id = last'.item_id)
          => /\ last'.status = 200
             /\ last'.body =
                  <<ItemView(CHOOSE it \in items : it.id = last'.item_id)>>
      ]_vars

\* C2: requests served one at a time.  get_category_id for a name that has
\* no row adds exactly one row, with that name and a fresh id, and returns
\* its id; for a name that has a row it returns that row's id and leaves
\* the table as it is.  No row is ever changed or removed and no two rows
\* share a name, so every later call for the name returns the same id.
C2_ResolveOrCreate ==
    /\ [](\A c1, c2 \in categories : c1.name = c2.name => c1 = c2)
    /\ [][/\ categories \subseteq categories'
          /\ \A r \in Slots :
               LET C == req[r].category
               IN  /\ (req[r].pc = "select" /\ req'[r] # req[r])
                      => /\ categories' = categories
                         /\ IF \E c \in categories : c.name = C
                            THEN /\ req'[r].pc = "insert_item"
                                 /\ \E c \in categories :
                                        /\ c.name = C
                                        /\ c.id = req'[r].category_id
                            ELSE req'[r].pc = "insert_cat"
                   /\ (req[r].pc = "insert_cat" /\ req'[r] # req[r])
                      => /\ req'[r].pc = "insert_item"
                         /\ \E new \in categories' \ categories :
                                /\ categories' = categories \cup {new}
                                /\ new.name = C
                                /\ new.id = req'[r].category_id
                                /\ \A c \in categories : c.id # new.id
         ]_vars

\* A second call for a name: one category row, one item row of that
\* category, and a request that resolved the same name to the same id.
C2_Witness ==
    /\ Cardinality(categories) = 1
    /\ \E r \in Slots, it \in items, c \in categories :
          /\ req[r].pc = "insert_item"
          /\ c.name = req[r].category
          /\ c.id = req[r].category_id
          /\ it.category_id = c.id

\* C3: POST /items with an empty name or an empty category is answered 400
\* and changes nothing that is persisted: no image file, no category row,
\* no item row; such a request never goes on to the statements that write.
C3_InvalidRejected ==
    /\ [](\A r \in Slots :
             InFlight(r) => req[r].name # "" /\ req[r].category # "")
    /\ [][(Answered("add_item")
               /\ (last'.name = "" \/ last'.category = ""))
          => /\ last'.status = 400
             /\ UNCHANGED <<files, categories, catSeq, items, itemSeq>>
         ]_vars

C3_Witness ==
    /\ last.kind = "add_item"
    /\ last.name # ""
    /\ last.category = ""
    /\ last.status = 400

\* C4: GET /search with an empty keyword answers 200 with one ItemView per
\* row of items, none missing and none extra.
C4_SearchEmptyKeyword ==
    [][(Answered("search") /\ last'.keyword = "" /\ last'.db = "conn")
       => /\ last'.status = 200
          /\ last'.body = [i \in 1..Cardinality(items) |->
                              ItemView(SortById(items)[i])]
      ]_vars

\* C5: GET /image/{name} with a name that does not end in '.jpg' is answered
\* 400, whether or not the name exists in the image directory.
C5_NotJpgIs400 ==
    (last.kind = "get_image" /\ ~EndsWith(last.path, ".jpg"))
    => last.status = 400

\* A name without the suffix that exists, answered 400.
C5_Witness ==
    /\ last.kind = "get_image"
    /\ ~EndsWith(last.path, ".jpg")
    /\ PathExists(files, last.path)
    /\ last.status = 400

\* C6: GET /image/{name} with a name ending in '.jpg' is answered 200 with
\* the content of the named file when it exists and with the content of
\* default.jpg when it does not.
C6_FallbackToDefault ==
    [][(Answered("get_image") /\ EndsWith(last'.path, ".jpg"))
       => /\ last'.status = 200
          /\ last'.body = <<IF last'.path \in DOMAIN files
                            THEN files[last'.path]
                            ELSE files["default.jpg"]>>
      ]_vars

\* A '.jpg' name that names no file, answered with the default content
\* while an uploaded file is there.
C6_Witness ==
    /\ last.kind = "get_image"
    /\ last.path = "x.jpg"
    /\ last.path \notin DOMAIN files
    /\ last.status = 200
    /\ last.body = <<DefaultBytes>>
    /\ \E f \in DOMAIN files : f # "default.jpg"

\* C7: requests served one at a time.  Every add_item carrying bytes B
\* derives the asset name '<sha256(B)>.jpg' and leaves a file of that name
\* holding B; a save under a name that already holds B leaves the image
\* directory as it is, and a save never touches another file; every add_item
\* with non-empty fields succeeds and inserts one more item row.
C7_SaveIdempotent ==
    /\ [](\A r \in Slots :
             InFlight(r)
             => /\ req[r].image_name = Sha256Hex(req[r].image) \o ".jpg"
                /\ req[r].image_name \in DOMAIN files
                /\ files[req[r].image_name] = req[r].image)
    /\ [][/\ \A r \in Slots :
               /\ (req[r].pc = "idle" /\ req'[r].pc = "select")
                  => LET n == req'[r].image_name
                     IN  /\ DOMAIN files' = DOMAIN files \cup {n}
                         /\ \A f \in DOMAIN files \ {n} : files'[f] = files[f]
                         /\ n \in DOMAIN files => files' = files
               /\ (req[r].pc = "insert_item" /\ req'[r].pc = "idle")
                  => /\ last'.status = 200
                     /\ items \subseteq items'
                     /\ Cardinality(items') = Cardinality(items) + 1
                     /\ \A it \in items' \ items :
                            /\ it.image_name = req[r].image_name
                            /\ \A old \in items : old.id # it.id
          /\ (Answered("add_item") /\ last'.name # "" /\ last'.category # "")
             => last'.status = 200
         ]_vars

\* Two item rows naming one image file, the only upload in the directory.
C7_Witness ==
    /\ last.kind = "add_item"
    /\ last.status = 200
    /\ Cardinality(DOMAIN files) = 2
    /\ \E i1, i2 \in items :
          /\ i1.id # i2.id
          /\ i1.image_name = i2.image_name
          /\ i1.image_name = last.image_name

\* C8: every row of items has a category_id that is the id of a row of
\* categories, insert_item being refused for any other category_id.
C8_ItemsReferenceCategory ==
    \A it \in items : \E c \in categories : c.id = it.category_id

\* C9: under every interleaving of add_item requests, no two rows of
\* categories hold the same name.
C9_CategoryNamesUnique ==
    \A c1, c2 \in categories : c1.name = c2.name => c1.id = c2.id

\* Two requests raced on one new name and the second insert was refused.
C9_Witness ==
    /\ last.kind = "add_item"
    /\ last.exc = "IntegrityError"
    /\ \E c \in categories : c.name = last.category

\* C10: a request that is over has left no connection open, whether the
\* handler returned, raised an HTTP error or a storage error, or was given
\* no connection because the database file was missing.
C10_ConnectionClosed ==
    /\ last.conn # "open"
    /\ last.gen \in {"unstarted", "returned"}
    /\ (last.db = "conn" => last.conn = "closed")

\* A request that arrived while the database file was missing is over.
C10_Witness ==
    /\ last.pc = "done"
    /\ last.db = "None"
    /\ last.gen = "returned"
    /\ last.conn # "open"

====
